---- MODULE Spec2Model ----
(***************************************************************************)
(* Model of the content pipeline of sunil-goyal-1502/multiagent:           *)
(*   src/src/pipeline/manager.py   ContentPipeline                         *)
(*   src/src/agents/base.py        AgentRole, Message, BaseAgent           *)
(*   src/src/agents/*.py           the six stage agents (_process_task)    *)
(*   src/src/utils/monitoring.py   PipelineMonitor                         *)
(*                                                                         *)
(* The program runs on one asyncio event loop.  A step of the model is the *)
(* code a coroutine runs between two points where it really suspends.      *)
(***************************************************************************)
EXTENDS Integers, Sequences, FiniteSets, TLC

(***************************************************************************)
(* Bounds of the model.                                                    *)
(***************************************************************************)
\* number of start_pipeline calls made on the one ContentPipeline
MaxRuns == 2
\* the wall clock runs from tick 0 to tick MaxClock
MaxClock == 2
\* number of log_event calls made by operational tooling
MaxEvents == 1
\* number of ContentPipeline.shutdown calls
MaxShutdowns == 2
\* number of messages put on the agents' mailboxes from outside the workflow
\* (control messages, task messages of other callers)
MaxControls == 2
\* number of sections of a draft article
MaxSections == 2
\* number of task messages other callers put on the agents' mailboxes
MaxTasks == 1
\* number of ResearchAgent.gather_research calls
MaxResearch == 3
\* number of LLMInterface.generate invocations
MaxGenerates == 3
\* number of PublisherAgent.publish_content calls
MaxPublishes == 3

\* clock ticks per second: datetime.now() is finer than the "%H%M%S" of
\* _generate_pipeline_id
TicksPerSecond == 2

None == "None"

(***************************************************************************)
(* AgentRole and the workflow.                                             *)
(***************************************************************************)
RESEARCHER == "researcher"
WRITER == "writer"
EDITOR == "editor"
SEO == "seo"
IMAGE == "image"
PUBLISHER == "publisher"

AgentRole == {RESEARCHER, WRITER, EDITOR, SEO, IMAGE, PUBLISHER}

\* create_workflow with the writer also feeding the SEO stage (a fan-in)
create_workflow_fan_in ==
    [r \in AgentRole |->
        CASE r = RESEARCHER -> <<WRITER>>
          [] r = WRITER     -> <<EDITOR, SEO>>
          [] r = EDITOR     -> <<SEO>>
          [] r = SEO        -> <<IMAGE>>
          [] r = IMAGE      -> <<PUBLISHER>>
          [] r = PUBLISHER  -> <<>>]

\* ContentPipeline.create_workflow: each stage's list of successors
create_workflow ==
    [r \in AgentRole |->
        CASE r = RESEARCHER -> <<WRITER>>
          [] r = WRITER     -> <<EDITOR>>
          [] r = EDITOR     -> <<SEO>>
          [] r = SEO        -> <<IMAGE>>
          [] r = IMAGE      -> <<PUBLISHER>>
          [] r = PUBLISHER  -> <<>>]

\* the dict objects an agent_registry attribute can refer to:
\* ContentPipeline.agents, and the empty dict BaseAgent.__init__ makes for
\* the agent of a role
AgentsDict == "pipeline.agents"
OwnDict(role) == role

\* the keys of a dict object: agents has one entry per role
DictKeys(ref) == IF ref = AgentsDict THEN AgentRole ELSE {}

\* agent_registry of the agent of a role when ContentPipeline.__init__ leaves
\* it as BaseAgent.__init__ set it
RegistryRefUnset(role) == OwnDict(role)

\* agent_registry of the agent of a role after ContentPipeline.__init__: a
\* reference to the agents dict
RegistryRef(role) == AgentsDict

\* ContentPipeline.agents, which __init__ also assigns to every agent's
\* agent_registry: the roles that resolve to an agent
agent_registry == UNION {DictKeys(RegistryRef(role)) : role \in AgentRole}

Range(s) == {s[i] : i \in 1..Len(s)}

IsPrefix(s, t) == Len(s) <= Len(t) /\ \A i \in 1..Len(s) : s[i] = t[i]

Calls == 1..MaxRuns

(***************************************************************************)
(* Payloads of start_pipeline and _generate_pipeline_id.  A topic is a     *)
(* sequence of characters.                                                 *)
(***************************************************************************)
Topics == { <<"A", " ">>, <<"a", "_">>, <<"b">> }
StyleGuides == {None, "technical"}
TargetLengths == {2000}

\* str.lower()
Lower(ch) == IF ch = "A" THEN "a" ELSE IF ch = "B" THEN "b" ELSE ch

\* topic.lower().replace(" ", "_")
TopicSlug(topic) ==
    [i \in 1..Len(topic) |-> IF Lower(topic[i]) = " " THEN "_" ELSE Lower(topic[i])]

\* datetime.now().strftime("%Y%m%d_%H%M%S"): the time of day cut to whole seconds
Strftime(t) == t \div TicksPerSecond

_generate_pipeline_id(topic, t) == [slug |-> TopicSlug(topic), ts |-> Strftime(t)]

PipelineIds == {_generate_pipeline_id(tp, t) : tp \in Topics, t \in 0..(MaxClock + 1)}

(***************************************************************************)
(* Messages.  content is the payload, a dict from keys to values; run is a *)
(* history field (not in the code): the start_pipeline call the message    *)
(* stems from, 0 for a message that stems from none.                       *)
(***************************************************************************)
\* Message._generate_id: f"{timestamp}-{sender}-{receiver}"
_generate_id(timestamp, sender, receiver) == <<timestamp, sender, receiver>>

\* Message.__init__ at time t
MessageAt(t, sender, receiver, content, message_type, run) ==
    [id |-> _generate_id(t, sender, receiver),
     sender |-> sender, receiver |-> receiver, content |-> content,
     message_type |-> message_type, timestamp |-> t, run |-> run]

\* the value of a payload key whose content takes no part in any decision
Data == "data"

\* a payload with the given keys
Payload(keys) == [k \in keys |-> Data]

\* the text of an exception
ExceptionText == "exception"

\* the content of an error message
ErrorContent(error, original_message_id) ==
    [error |-> error, original_message_id |-> original_message_id]

\* the payload key each _process_task checks for first
RequiredField(role) ==
    CASE role = RESEARCHER -> "research_topic"
      [] role = WRITER     -> "research_data"
      [] role = EDITOR     -> "draft_article"
      [] role = SEO        -> "edited_article"
      [] role = IMAGE      -> "seo_optimized_article"
      [] role = PUBLISHER  -> "article_with_images"

\* the payload keys of the message a stage builds on success
OutputContent(role) ==
    CASE role = RESEARCHER -> {"research_data", "topic"}
      [] role = WRITER     -> {"draft_article", "research_data", "metadata"}
      [] role = EDITOR     -> {"edited_article", "original_research", "editing_metadata"}
      [] role = SEO        -> {"seo_optimized_article", "original_research"}
      [] role = IMAGE      -> {"article_with_images", "image_metadata"}
      [] role = PUBLISHER  -> {"publish_result", "publish_metadata"}

\* the receivers of the output messages with the writer's addressed to the
\* stage after the next one
OutputReceiverSkipsEditor(role) ==
    CASE role = RESEARCHER -> WRITER
      [] role = WRITER     -> SEO
      [] role = EDITOR     -> SEO
      [] role = SEO        -> IMAGE
      [] role = IMAGE      -> PUBLISHER
      [] role = PUBLISHER  -> None

\* the receiver each _process_task writes into its output message
OutputReceiver(role) ==
    CASE role = RESEARCHER -> WRITER
      [] role = WRITER     -> EDITOR
      [] role = EDITOR     -> SEO
      [] role = SEO        -> IMAGE
      [] role = IMAGE      -> PUBLISHER
      [] role = PUBLISHER  -> None

\* message.content.get("command")
Command(message) ==
    IF "command" \in DOMAIN message.content THEN message.content.command ELSE None

\* did the stage's work succeed on a task message
Succeeded(role, message, ok) ==
    /\ message.message_type = "task"
    /\ RequiredField(role) \in DOMAIN message.content
    /\ ok

Failed(role, message, ok) ==
    /\ message.message_type = "task"
    /\ ~Succeeded(role, message, ok)

(***************************************************************************)
(* State.                                                                  *)
(***************************************************************************)
VARIABLES
    now,              \* wall clock, in ticks
    pipeline_status,  \* ContentPipeline.pipeline_status: dict pipeline_id -> record
    call,             \* per start_pipeline call: position, pipeline id, payload
    tasks,            \* per call: the tasks created by start_pipeline
    message_queue,    \* per agent: BaseAgent.message_queue
    running,          \* per agent: BaseAgent.running
    waiting,          \* per agent: the number of its run() loops blocked in message_queue.get()
    processing,       \* per agent: the messages its run() loops are processing
    events,           \* PipelineMonitor.events: dict pipeline_id -> list
    metrics,          \* PipelineMonitor.metrics: dict pipeline_id -> record
    alerts,           \* PipelineMonitor.alerts
    logged,           \* number of log_event calls made so far
    result,           \* what the last get_pipeline_status call gave its caller
    stagesDone,       \* history: per call, the stages that processed its message successfully
    stageFailed,      \* history: per call, the stages whose processing of its message failed
    undelivered,      \* history: messages for which send_message found no target agent
    controls,         \* number of messages put on mailboxes from outside the workflow so far
    shutdowns,        \* the outcomes of the ContentPipeline.shutdown calls made so far
    serial,           \* a Message, the dict to_dict made of it, the Message from_dict made of that
    editing,          \* EditorAgent.edit_article at work on the draft of a received message
    delivered,        \* history: the messages handed to process_message so far
    invoked,          \* history: the task messages for which a stage called its own work
    research,         \* ResearchAgent: research_cache, the searches made, the last gather_research
    reported,         \* how the last PipelineMonitor.log_event call ended for its caller
    llm,              \* LLMInterface.generate: the attempts of the invocation at work
    publishing        \* PublisherAgent.publish_content: the call at work, publish_history

vars == <<now, pipeline_status, call, tasks, message_queue, running, waiting,
          processing, events, metrics, alerts, logged, result, stagesDone, stageFailed,
          undelivered, controls, shutdowns, serial, editing, delivered, invoked,
          research, reported, llm, publishing>>

extVars == <<controls, shutdowns, serial, editing>>
traceVars == <<delivered, invoked>>
utilVars == <<reported, llm, publishing>>

monitorVars == <<events, metrics, alerts, logged>>
histVars == <<stagesDone, stageFailed, undelivered>>

EmptyDict == [x \in {} |-> None]

\* no Message has been built for serialization yet
NoSerial == [pc |-> "none"]

\* the editor has received no draft yet
NoEditing == [pc |-> "idle"]

\* the researcher after construction: an empty research_cache, no search
\* made, no gather_research call
NoResearch == [cache |-> EmptyDict, searches |-> 0, calls |-> 0, last |-> [pc |-> "none"]]

\* no log_event call has been made yet
NoReport == [pc |-> "none"]

\* the LLMInterface after construction: no generate call made, an empty
\* request_history
NoGenerate == [pc |-> "idle", calls |-> 0, attempts |-> << >>, request_history |-> << >>]

\* the publisher after construction: no publish_content call made, an empty
\* publish_history, no assets prepared, nothing handed to the content
\* publisher
NoPublishing ==
    [pc |-> "idle", calls |-> 0, publish_history |-> << >>, prepared |-> << >>,
     published |-> << >>]

\* d[k] = v of a Python dict
DictSet(d, k, v) == [x \in (DOMAIN d) \cup {k} |-> IF x = k THEN v ELSE d[x]]

Init ==
    /\ now = 0
    /\ pipeline_status = EmptyDict
    /\ call = [c \in Calls |-> [pc |-> "idle", pid |-> None, payload |-> None]]
    /\ tasks = [c \in Calls |-> "none"]
    /\ message_queue = [a \in AgentRole |-> << >>]
    /\ running = [a \in AgentRole |-> TRUE]
    /\ waiting = [a \in AgentRole |-> 0]
    /\ processing = [a \in AgentRole |-> {}]
    /\ events = EmptyDict
    /\ metrics = EmptyDict
    /\ alerts = << >>
    /\ logged = 0
    /\ result = [none |-> TRUE]
    /\ stagesDone = [c \in Calls |-> << >>]
    /\ stageFailed = [c \in Calls |-> {}]
    /\ undelivered = {}
    /\ controls = 0
    /\ shutdowns = << >>
    /\ serial = NoSerial
    /\ editing = NoEditing
    /\ delivered = {}
    /\ invoked = {}
    /\ research = NoResearch
    /\ reported = NoReport
    /\ llm = NoGenerate
    /\ publishing = NoPublishing

loopVars == <<waiting, processing>>

(***************************************************************************)
(* Messages built at the current time, and BaseAgent.process_message.      *)
(***************************************************************************)
\* Message(...): the constructor reads datetime.now()
Message(sender, receiver, content, message_type, run) ==
    MessageAt(now, sender, receiver, content, message_type, run)

\* the seed message of start_pipeline
InitialMessage(c) ==
    Message(None, RESEARCHER,
            Payload({"research_topic", "style_guide", "target_length", "pipeline_id"}),
            "task", c)

\* _create_error_message with the reply addressed to the agent itself
_create_error_message_to_self(role, original) ==
    Message(role, role, ErrorContent(ExceptionText, original.id), "error",
            original.run)

_create_error_message(role, original) ==
    Message(role, original.sender, ErrorContent(ExceptionText, original.id), "error",
            original.run)

\* _process_control with the test of the command negated
_process_control_negated(message) ==
    [stop |-> Command(message) # "shutdown", response |-> << >>]

\* _process_control: whether it clears self.running, and its response
_process_control(message) ==
    [stop |-> Command(message) = "shutdown", response |-> << >>]

\* does _process_task get as far as the call of the stage's own work
\* (gather_research, write_article, edit_article, optimize_article,
\* generate_images, publish_content)
\* the check of the required field left out: the work is called for every
\* task message
WorkInvokedUnchecked(role, message) == message.message_type = "task"

WorkInvoked(role, message) ==
    /\ message.message_type = "task"
    /\ RequiredField(role) \in DOMAIN message.content

\* _process_task that hands the stage's output on when the work has failed
_process_task_forwards_failure(role, message, ok) ==
    IF ~WorkInvoked(role, message)
    THEN << _create_error_message(role, message) >>
    ELSE << Message(role, OutputReceiver(role), Payload(OutputContent(role)),
                    "task", message.run) >>

\* _process_task of the six agents; ok says whether the stage's own work
\* (gather_research, write_article, ..., publish_content) returns or raises.
\* The result is a sequence of zero or one message.
_process_task(role, message, ok) ==
    IF ~WorkInvoked(role, message)
    THEN << _create_error_message(role, message) >>
    ELSE IF ok
         THEN << Message(role, OutputReceiver(role), Payload(OutputContent(role)),
                         "task", message.run) >>
         ELSE << _create_error_message(role, message) >>

\* the other types answered with an error message to the sender
_process_other_replies(role, message) ==
    << _create_error_message(role, message) >>

\* process_message for a message of a type other than task and control:
\* _process_query returns None, and so does the branch that logs "Unknown
\* message type" (the type 'error' is one of the unknown types)
_process_other(role, message) == << >>

\* process_message that answers a failure with the message itself, which
\* send_message then puts on the agent's own mailbox again
process_message_retries(role, message, ok) ==
    IF message.message_type = "task"
    THEN IF Failed(role, message, ok)
         THEN << message >>
         ELSE _process_task(role, message, ok)
    ELSE IF message.message_type = "control"
         THEN _process_control(message).response
         ELSE _process_other(role, message)

\* BaseAgent.process_message: the response, a sequence of zero or one message
process_message(role, message, ok) ==
    IF message.message_type = "task"
    THEN _process_task(role, message, ok)
    ELSE IF message.message_type = "control"
         THEN _process_control(message).response
         ELSE _process_other(role, message)

\* self.running after process_message, given its value before
RunningAfter(flag, message) ==
    IF message.message_type = "control" /\ _process_control(message).stop
    THEN FALSE
    ELSE flag

\* The clock advances.  Only _generate_pipeline_id reads it in this model
\* (the start_time, end_time and timestamp fields, which no decision of the
\* code reads, are left out), so it is followed while a call is still to come.
Tick ==
    /\ now < MaxClock
    /\ \E c \in Calls : call[c].pc = "idle"
    /\ now' = now + 1
    /\ UNCHANGED <<pipeline_status, call, tasks, message_queue, running, loopVars,
                   monitorVars, result, histVars, extVars, traceVars, research, utilVars>>

(***************************************************************************)
(* ContentPipeline.start_pipeline and monitor_pipeline.                    *)
(***************************************************************************)
\* StartRecord with the stage fields mixed up: completed_stages starts with a stage in it
StartRecordStagesMixedUp ==
    [status |-> "started", current_stage |-> RESEARCHER,
     completed_stages |-> << PUBLISHER >>, errors |-> << >>]

\* the record start_pipeline stores for a new run
StartRecord ==
    [status |-> "started", current_stage |-> RESEARCHER, completed_stages |-> << >>, errors |-> << >>]

Terminal == {"completed", "failed"}

\* PublisherCompleted with the membership test negated and the stage test lost
PublisherCompletedNegated(status) ==
    PUBLISHER \notin Range(status.completed_stages)

\* monitor_pipeline's test "publisher has completed"
PublisherCompleted(status) ==
    /\ status.current_stage = PUBLISHER
    /\ PUBLISHER \in Range(status.completed_stages)

\* one iteration of monitor_pipeline's loop on the run's record: the record
\* it leaves and whether the loop ends (break) or sleeps
MonitorIteration(status) ==
    IF status.status \in Terminal
    THEN [status |-> status, break |-> TRUE]
    ELSE IF PublisherCompleted(status)
         THEN [status |-> [status EXCEPT !.status = "completed"],
               break |-> TRUE]
         ELSE [status |-> status, break |-> FALSE]

\* start_pipeline up to its first suspension: the run record, the tasks
\* (track_pipeline and one agent.run() per agent, not yet running), the seed
\* message on the researcher's queue and the first iteration of
\* monitor_pipeline.  Calls are numbered in the order they are made.
start_pipeline(c, topic, style_guide, target_length) ==
    /\ call[c].pc = "idle"
    /\ IF c = 1 THEN TRUE ELSE call[c - 1].pc # "idle"
    /\ LET pipeline_id == _generate_pipeline_id(topic, now)
           created == DictSet(pipeline_status, pipeline_id, StartRecord)
           it == MonitorIteration(created[pipeline_id])
       IN  /\ pipeline_status' = [created EXCEPT ![pipeline_id] = it.status]
           /\ call' = [call EXCEPT ![c] =
                  [pc |-> IF it.break THEN "returned" ELSE "monitor",
                   pid |-> pipeline_id,
                   payload |-> [topic |-> topic, style_guide |-> style_guide,
                                target_length |-> target_length]]]
    /\ tasks' = [tasks EXCEPT ![c] = "created"]
    /\ message_queue' = [message_queue EXCEPT
                           ![RESEARCHER] = Append(@, InitialMessage(c))]
    /\ UNCHANGED <<now, running, loopVars, monitorVars, result, histVars, extVars, traceVars, research, utilVars>>

\* PipelineMonitor.track_pipeline
track_pipeline(pipeline_id) ==
    /\ events' = DictSet(events, pipeline_id, << >>)
    /\ metrics' = DictSet(metrics, pipeline_id,
                     [agent_metrics |-> EmptyDict, resource_usage |-> << >>,
                      completion_time |-> None])

\* The tasks start_pipeline created start to run, in the order of their
\* creation and with nothing in between (they are neighbours in the event
\* loop's ready queue): track_pipeline, then each agent.run() up to its
\* first queue.get().
run_tasks(c) ==
    /\ tasks[c] = "created"
    /\ tasks' = [tasks EXCEPT ![c] = "started"]
    /\ track_pipeline(call[c].pid)
    /\ waiting' = [a \in AgentRole |-> IF running[a] THEN waiting[a] + 1 ELSE waiting[a]]
    /\ UNCHANGED <<now, pipeline_status, call, message_queue, running, processing,
                   alerts, logged, result, histVars, extVars, traceVars, research, utilVars>>

\* monitor_pipeline wakes from its sleep and runs one more iteration; on
\* break start_pipeline returns the pipeline id
monitor_pipeline(c) ==
    /\ call[c].pc = "monitor"
    /\ LET it == MonitorIteration(pipeline_status[call[c].pid])
       IN  /\ pipeline_status' = [pipeline_status EXCEPT ![call[c].pid] = it.status]
           /\ call' = [call EXCEPT ![c].pc = IF it.break THEN "returned" ELSE "monitor"]
    /\ UNCHANGED <<now, tasks, message_queue, running, loopVars, monitorVars,
                   result, histVars, extVars, traceVars, research, utilVars>>

\* An exception is raised inside start_pipeline's try block while it waits in
\* monitor_pipeline (for instance the task is cancelled on a Python where
\* CancelledError is an Exception): the except branch runs and re-raises.
start_pipeline_except(c) ==
    /\ call[c].pc = "monitor"
    /\ pipeline_status' = [pipeline_status EXCEPT ![call[c].pid] =
                             [@ EXCEPT !.status = "failed",
                                       !.errors = Append(@, ExceptionText)]]
    /\ call' = [call EXCEPT ![c].pc = "raised"]
    /\ UNCHANGED <<now, tasks, message_queue, running, loopVars, monitorVars,
                   result, histVars, extVars, traceVars, research, utilVars>>

(***************************************************************************)
(* BaseAgent.run and send_message.                                         *)
(***************************************************************************)
\* send_message that puts the message on the target's queue and on the
\* researcher's as well
send_message_twice(queues, response) ==
    IF response = << >> THEN queues
    ELSE IF response[1].receiver \in agent_registry
         THEN [b \in AgentRole |->
                 IF b \in {response[1].receiver, RESEARCHER}
                 THEN Append(queues[b], response[1]) ELSE queues[b]]
         ELSE queues

\* BaseAgent.send_message: the queues after sending a response (a sequence
\* of zero or one message)
send_message(queues, response) ==
    IF response = << >> THEN queues
    ELSE IF response[1].receiver \in agent_registry
         THEN [queues EXCEPT ![response[1].receiver] = Append(@, response[1])]
         ELSE queues

\* the messages send_message logs as "Target agent ... not found"
NotFoundTargets(response) ==
    {response[i] : i \in {j \in 1..Len(response) : response[j].receiver \notin agent_registry}}

\* asyncio.Queue.get with the newest item taken first
QueueGetNewest(q) == [item |-> q[Len(q)], rest |-> SubSeq(q, 1, Len(q) - 1)]

\* asyncio.Queue.get on a queue that holds an item: the oldest item, and the
\* queue it leaves
QueueGet(q) == [item |-> Head(q), rest |-> Tail(q)]

\* a run() loop of agent a that is blocked in message_queue.get() takes the
\* next message and calls process_message (what the step does to the
\* program's state)
queue_get(a) ==
    /\ waiting[a] > 0
    /\ message_queue[a] # << >>
    /\ waiting' = [waiting EXCEPT ![a] = @ - 1]
    /\ processing' = [processing EXCEPT ![a] = @ \cup {QueueGet(message_queue[a]).item}]
    /\ message_queue' = [message_queue EXCEPT ![a] = QueueGet(@).rest]
    /\ UNCHANGED <<now, pipeline_status, call, tasks, running, monitorVars,
                   result, histVars, extVars>>

\* the step, with no history of deliveries kept
run_get(a) == queue_get(a) /\ UNCHANGED <<traceVars, research, utilVars>>

\* the step, with the message it hands to process_message recorded
run_get_traced(a) ==
    /\ queue_get(a)
    /\ delivered' = delivered \cup {QueueGet(message_queue[a]).item}
    /\ UNCHANGED <<invoked, research, utilVars>>

\* the test of run()'s loop with a failed iteration ending the loop
run_continues_unless_failed(flag, failed) == flag /\ ~failed

\* "while self.running" after an iteration that failed or not
run_continues(flag, failed) == flag

\* process_message returns in a run() loop of agent a: the response (if any)
\* is sent, task_done, and the loop tests self.running and waits again (what
\* the step does to the program's state)
process_and_send(a, message, ok) ==
    /\ message \in processing[a]
    /\ LET response == process_message(a, message, ok)
       IN  /\ message_queue' = send_message(message_queue, response)
           /\ undelivered' = undelivered \cup NotFoundTargets(response)
           /\ stagesDone' = IF Succeeded(a, message, ok)
                            THEN [stagesDone EXCEPT ![message.run] = Append(@, a)]
                            ELSE stagesDone
           /\ stageFailed' = IF Failed(a, message, ok)
                             THEN [stageFailed EXCEPT ![message.run] = @ \cup {a}]
                             ELSE stageFailed
    /\ processing' = [processing EXCEPT ![a] = @ \ {message}]
    /\ running' = [running EXCEPT ![a] = RunningAfter(@, message)]
    /\ waiting' = [waiting EXCEPT ![a] =
                      IF run_continues(running'[a], Failed(a, message, ok))
                      THEN @ + 1 ELSE @]
    /\ UNCHANGED <<now, pipeline_status, call, tasks, monitorVars, result, extVars>>

\* the step, with no history of the stages' calls kept
run_process(a, message, ok) ==
    process_and_send(a, message, ok) /\ UNCHANGED <<traceVars, research, utilVars>>

\* the step, with the call of the stage's own work recorded
run_process_traced(a, message, ok) ==
    /\ process_and_send(a, message, ok)
    /\ invoked' = IF WorkInvoked(a, message) THEN invoked \cup {message} ELSE invoked
    /\ UNCHANGED <<delivered, research, utilVars>>

\* the commands of the control messages that are sent
Commands == {"shutdown", "status"}

\* a control message for agent a, as an operator of the pipeline builds it
ControlMessage(a, command) ==
    Message(None, a, [command |-> command], "control", 0)

\* a control message is put on agent a's mailbox
put_control(a, command) ==
    /\ controls < MaxControls
    /\ controls' = controls + 1
    /\ message_queue' = [message_queue EXCEPT ![a] = Append(@, ControlMessage(a, command))]
    /\ UNCHANGED <<now, pipeline_status, call, tasks, running, loopVars, monitorVars,
                   result, histVars, shutdowns, serial, editing,
                   traceVars, research, utilVars>>

\* the payloads of the task messages other callers build for agent a: with
\* and without the field a's _process_task requires
TaskPayloads(a) == {Payload({"topic"}), Payload({RequiredField(a), "topic"})}

\* the senders such messages name
TaskSenders == {None, RESEARCHER}

\* a task message for agent a, as a caller of the agent builds it
TaskMessage(a, sender, content) == Message(sender, a, content, "task", 0)

\* a task message built outside the workflow is put on agent a's mailbox
put_task(a, sender, content) ==
    /\ controls < MaxTasks
    /\ controls' = controls + 1
    /\ message_queue' = [message_queue EXCEPT
                            ![a] = Append(@, TaskMessage(a, sender, content))]
    /\ UNCHANGED <<now, pipeline_status, call, tasks, running, loopVars, monitorVars,
                   result, histVars, shutdowns, serial, editing, traceVars, research, utilVars>>

\* a caller creates the task agent.run() for an agent that has no loop yet
\* (as test_run_agent does), and the task runs up to its first queue.get()
run_start(a) ==
    /\ waiting[a] = 0
    /\ processing[a] = {}
    /\ running[a]
    /\ waiting' = [waiting EXCEPT ![a] = 1]
    /\ UNCHANGED <<now, pipeline_status, call, tasks, message_queue, running, processing,
                   monitorVars, result, histVars, extVars, traceVars, research, utilVars>>

(***************************************************************************)
(* ContentPipeline.get_pipeline_status.                                    *)
(***************************************************************************)
\* dict.get(key, default)
DictGet(d, k, default) == IF k \in DOMAIN d THEN d[k] ELSE default

NotFound == [error |-> "Pipeline not found"]

\* _calculate_stage_durations reads e["stage"] of every event; log_event
\* stores no such key, so any event makes it raise KeyError
StageDurationsRaises(pipeline_id) == DictGet(events, pipeline_id, << >>) # << >>

\* get_pipeline_status looking the id up with setdefault: an unknown id gets
\* an empty record
get_pipeline_status_setdefault(pipeline_id) ==
    /\ pipeline_status' =
          IF pipeline_id \in DOMAIN pipeline_status
          THEN pipeline_status
          ELSE DictSet(pipeline_status, pipeline_id, EmptyDict)
    /\ result' = NotFound
    /\ UNCHANGED <<now, call, tasks, message_queue, running, loopVars, monitorVars,
                   histVars, extVars, traceVars, research, utilVars>>

get_pipeline_status(pipeline_id) ==
    /\ result' =
          IF pipeline_id \notin DOMAIN pipeline_status
          THEN NotFound
          ELSE IF StageDurationsRaises(pipeline_id)
               THEN [raised |-> "KeyError"]
               ELSE [status |-> pipeline_status[pipeline_id].status,
                     current_stage |-> pipeline_status[pipeline_id].current_stage,
                     completed_stages |-> pipeline_status[pipeline_id].completed_stages,
                     errors |-> pipeline_status[pipeline_id].errors,
                     tracked |-> pipeline_id \in DOMAIN metrics,
                     stage_durations |-> EmptyDict]
    /\ UNCHANGED <<now, pipeline_status, call, tasks, message_queue, running,
                   loopVars, monitorVars, histVars, extVars, traceVars, research, utilVars>>

(***************************************************************************)
(* PipelineMonitor.log_event, as operational tooling calls it.             *)
(***************************************************************************)
EventTypes == {"info", "error", "agent_complete"}

\* default of monitoring.thresholds.<agent>_duration, in seconds
DurationThreshold == 300
\* a duration "if duration:" takes as absent (None or 0)
NoDuration == 0

\* the monitoring.thresholds section of the configuration: the editor's
\* threshold is set, the other agents' are left to the default
ConfiguredThresholds == (EDITOR :> 2 * DurationThreshold)

\* config.get(f"monitoring.thresholds.{agent}_duration", 300)
threshold(agent) == DictGet(ConfiguredThresholds, agent, DurationThreshold)

\* metadata.get("agent") of an event: an agent on an agent_complete event,
\* absent on the others
EventAgents(type) ==
    IF type = "agent_complete" THEN {WRITER, EDITOR} ELSE {None}

\* the agents of events whose threshold is the default
DefaultEventAgents(type) ==
    {agent \in EventAgents(type) : agent \notin DOMAIN ConfiguredThresholds}

\* metadata.get("duration") of an event: a number of seconds on an
\* agent_complete event, absent on the others
Durations(type, agent) ==
    IF type = "agent_complete"
    THEN {threshold(agent), threshold(agent) + 1}
    ELSE {NoDuration}

\* _check_alerts with the duration compared by >=
_check_alerts_at_threshold(pipeline_id, type, agent, duration) ==
    (IF type = "error"
     THEN << [pipeline_id |-> pipeline_id, type |-> "PIPELINE_ERROR"] >>
     ELSE << >>)
    \o
    (IF type = "agent_complete" /\ duration # NoDuration /\ duration >= threshold(agent)
     THEN << [pipeline_id |-> pipeline_id, type |-> "SLOW_AGENT"] >>
     ELSE << >>)

\* _check_alerts: the alerts an event adds (_create_alert appends each to
\* self.alerts before it calls _handle_alert)
_check_alerts(pipeline_id, type, agent, duration) ==
    (IF type = "error"
     THEN << [pipeline_id |-> pipeline_id, type |-> "PIPELINE_ERROR"] >>
     ELSE << >>)
    \o
    (IF type = "agent_complete" /\ duration # NoDuration /\ duration > threshold(agent)
     THEN << [pipeline_id |-> pipeline_id, type |-> "SLOW_AGENT"] >>
     ELSE << >>)

\* the names bound in the module monitoring.py: its imports and what it
\* defines
MonitoringGlobals ==
    {"Dict", "List", "Optional", "logging", "datetime", "json", "Path", "asyncio",
     "Config", "logger", "PipelineMonitor"}

\* "async with aiofiles.open(...)": the name is looked up when the line runs
aiofiles_raises == "aiofiles" \notin MonitoringGlobals

\* how a log_event call ends for the caller that awaits it: KeyError at
\* self.events[pipeline_id] for an id track_pipeline has not registered;
\* else _check_alerts is awaited, and for each alert _create_alert,
\* _handle_alert and the alert's handler (_handle_pipeline_error,
\* _handle_performance_alert), which opens a log with aiofiles; else
\* _write_to_log is awaited, which does the same
log_event_outcome(pipeline_id, type, agent, duration) ==
    IF pipeline_id \notin DOMAIN events
    THEN [pc |-> "raised", exception |-> "KeyError", from |-> "log_event"]
    ELSE IF _check_alerts(pipeline_id, type, agent, duration) # << >> /\ aiofiles_raises
    THEN [pc |-> "raised", exception |-> "NameError", from |-> "_handle_alert"]
    ELSE IF aiofiles_raises
    THEN [pc |-> "raised", exception |-> "NameError", from |-> "_write_to_log"]
    ELSE [pc |-> "returned"]

\* log_event appends the event and the alerts it raises (what the call does
\* to the monitor's state).  For a pipeline id that track_pipeline has not
\* registered, self.events[pipeline_id] raises KeyError before anything is
\* stored.
append_event(pipeline_id, type, agent, duration) ==
    /\ logged < MaxEvents
    /\ logged' = logged + 1
    /\ IF pipeline_id \in DOMAIN events
       THEN /\ events' = [events EXCEPT ![pipeline_id] =
                             Append(@, [type |-> type, agent |-> agent,
                                        duration |-> duration])]
            /\ alerts' = alerts \o _check_alerts(pipeline_id, type, agent, duration)
       ELSE UNCHANGED <<events, alerts>>
    /\ UNCHANGED <<now, pipeline_status, call, tasks, message_queue, running,
                   loopVars, metrics, result, histVars, extVars, traceVars, research,
                   llm, publishing>>

\* the call, with no record of how it ended kept
log_event(pipeline_id, type, agent, duration) ==
    append_event(pipeline_id, type, agent, duration) /\ UNCHANGED reported

\* the call, with the way it ended for its caller recorded
log_event_reported(pipeline_id, type, agent, duration) ==
    /\ append_event(pipeline_id, type, agent, duration)
    /\ reported' = log_event_outcome(pipeline_id, type, agent, duration)

(***************************************************************************)
(* Message.to_dict and Message.from_dict.                                  *)
(***************************************************************************)
\* member.value of an AgentRole member: the str the Enum gives it.  (The
\* model names a member by a string of its own; its value is another one.)
EnumValue(role) ==
    CASE role = RESEARCHER -> "'researcher'"
      [] role = WRITER     -> "'writer'"
      [] role = EDITOR     -> "'editor'"
      [] role = SEO        -> "'seo'"
      [] role = IMAGE      -> "'image'"
      [] role = PUBLISHER  -> "'publisher'"

\* AgentRole(value): the member with that value
AgentRoleOf(v) == CHOOSE role \in AgentRole : EnumValue(role) = v

\* datetime.isoformat()
isoformat(t) == [isoformat |-> t]

\* Message.to_dict; self.receiver.value needs a receiver that is a member
to_dict_raises(m) == m.receiver = None

to_dict(m) ==
    [id |-> m.id,
     sender |-> IF m.sender # None THEN EnumValue(m.sender) ELSE None,
     receiver |-> EnumValue(m.receiver),
     content |-> m.content,
     message_type |-> m.message_type,
     timestamp |-> isoformat(m.timestamp)]

\* Message.from_dict: the constructor is called with sender, receiver,
\* content and message_type; it sets timestamp and id itself
from_dict(data) ==
    Message(IF data.sender # None THEN AgentRoleOf(data.sender) ELSE None,
            AgentRoleOf(data.receiver), data.content, data.message_type, 0)

\* the Messages that are serialized
SerialSenders == AgentRole \cup {None}
SerialReceivers == AgentRole \cup {None}
SerialContents == {Payload({"test"}), [command |-> "shutdown"]}
SerialTypes == {"task", "control"}

\* a Message is constructed
new_message(sender, receiver, content, message_type) ==
    /\ serial.pc = "none"
    /\ serial' = [pc |-> "built",
                  message |-> Message(sender, receiver, content, message_type, 0)]
    /\ UNCHANGED <<now, pipeline_status, call, tasks, message_queue, running, loopVars,
                   monitorVars, result, histVars, controls, shutdowns, editing,
                   traceVars, research, utilVars>>

\* message.to_dict() is called
to_dict_call ==
    /\ serial.pc = "built"
    /\ serial' = IF to_dict_raises(serial.message)
                 THEN [pc |-> "raised", message |-> serial.message]
                 ELSE [pc |-> "dumped", message |-> serial.message,
                       data |-> to_dict(serial.message)]
    /\ UNCHANGED <<now, pipeline_status, call, tasks, message_queue, running, loopVars,
                   monitorVars, result, histVars, controls, shutdowns, editing,
                   traceVars, research, utilVars>>

\* Message.from_dict(data) is called
from_dict_call ==
    /\ serial.pc = "dumped"
    /\ serial' = [pc |-> "loaded", message |-> serial.message, data |-> serial.data,
                  copy |-> from_dict(serial.data)]
    /\ UNCHANGED <<now, pipeline_status, call, tasks, message_queue, running, loopVars,
                   monitorVars, result, histVars, controls, shutdowns, editing,
                   traceVars, research, utilVars>>

(***************************************************************************)
(* EditorAgent.edit_article and _fix_grammar on the draft article of a     *)
(* received message.  A dict or list is an object on the heap; the draft's *)
(* "sections" entry is a reference to the list of its section dicts.       *)
(***************************************************************************)
\* the texts of a draft, and the two texts _apply_grammar_fix can give
DraftText == "draft text"
AutoFixText == "auto_fix text"
LlmFixText == "llm text"

\* the reference to the sections list of the draft the writer built
SectionsRef == "sections@1"

\* the draft_article dict of a received message, with n sections
DraftArticle(n) ==
    [title |-> DraftText, introduction |-> DraftText, conclusion |-> DraftText,
     sections |-> SectionsRef]

\* the heap when the message is received: the content of each section
DraftHeap(n) == [r \in {SectionsRef} |-> [i \in 1..n |-> DraftText]]

\* an article with its references followed
Deref(article, heap) == [article EXCEPT !.sections = heap[article.sections]]

\* the locations _check_grammar gives its issues ("section_<i>" as a pair)
Locations(n) ==
    {<<"title", 0>>, <<"introduction", 0>>, <<"conclusion", 0>>}
    \cup {<<"section", i>> : i \in 1..n}

\* per location: no issue, an issue with an auto_fix, an issue without one
FixKinds == {"none", "auto_fix", "llm"}
IssueLists(n) == [Locations(n) -> FixKinds]

_apply_grammar_fix(text, kind) ==
    IF kind = "auto_fix" THEN AutoFixText ELSE LlmFixText

\* the text at a location after the issue there (if any) is fixed
FixedAt(text, issues, location) ==
    IF issues[location] = "none" THEN text
    ELSE _apply_grammar_fix(text, issues[location])

\* dict.copy(): a new dict with the same entries; "sections" still refers
\* to the same list
copy(article) ==
    [title |-> article.title, introduction |-> article.introduction,
     conclusion |-> article.conclusion, sections |-> article.sections]

\* _fix_grammar: the dict it returns and the heap it leaves
_fix_grammar(article, heap, issues) ==
    LET edited_article == copy(article)
        sections == heap[edited_article.sections]
    IN  [edited |-> [edited_article EXCEPT
                        !.title = FixedAt(@, issues, <<"title", 0>>),
                        !.conclusion = FixedAt(@, issues, <<"conclusion", 0>>)],
         heap |-> [heap EXCEPT ![edited_article.sections] =
                      [i \in 1..Len(sections) |->
                          FixedAt(sections[i], issues, <<"section", i>>)]]]

\* the methods class EditorAgent defines
EditorAgentMethods ==
    {"_process_task", "edit_article", "_check_grammar", "_check_style",
     "_analyze_content", "_check_factual_accuracy", "_verify_fact", "_facts_match",
     "_fix_grammar", "_apply_grammar_fix", "_improve_content", "_assess_quality",
     "_format_issues", "_group_issues_by_section", "_create_editing_metadata"}

\* the methods of self that edit_article calls, in the order it calls them
\* (those of _analyze_content in its place)
EditArticleCalls ==
    << "_check_grammar", "_check_style", "_analyze_content",
       "_check_factual_accuracy", "_check_content_flow", "_check_coverage",
       "_fix_grammar", "_fix_style", "_improve_content", "_assess_quality" >>

\* the index of the first call of edit_article that raises AttributeError,
\* 0 if none does
FirstMissingCall ==
    IF \A i \in 1..Len(EditArticleCalls) : EditArticleCalls[i] \in EditorAgentMethods
    THEN 0
    ELSE CHOOSE i \in 1..Len(EditArticleCalls) :
            /\ EditArticleCalls[i] \notin EditorAgentMethods
            /\ \A j \in 1..(i - 1) : EditArticleCalls[j] \in EditorAgentMethods

\* does edit_article get as far as its call of _fix_grammar
ReachesFixGrammar ==
    \/ FirstMissingCall = 0
    \/ \E i \in 1..Len(EditArticleCalls) :
          EditArticleCalls[i] = "_fix_grammar" /\ i < FirstMissingCall

\* the number of sections of the draft the editor has received
SectionCount == IF editing.pc = "idle" THEN 0 ELSE Len(editing.original.sections)

\* the editor's loop has taken a task message whose draft_article has n sections
receive_draft(n) ==
    /\ editing.pc = "idle"
    /\ editing' = [pc |-> "received", original |-> Deref(DraftArticle(n), DraftHeap(n)),
                   article |-> DraftArticle(n), heap |-> DraftHeap(n)]
    /\ UNCHANGED <<now, pipeline_status, call, tasks, message_queue, running, loopVars,
                   monitorVars, result, histVars, controls, shutdowns, serial,
                   traceVars, research, utilVars>>

\* _process_task calls edit_article(message.content["draft_article"], ...),
\* which works on article.copy() and, with the grammar issues found,
\* raises AttributeError at the first method the class does not define
edit_article(issues) ==
    /\ editing.pc = "received"
    /\ LET edited_article == copy(editing.article)
           fixed == _fix_grammar(edited_article, editing.heap, issues)
       IN  editing' =
              IF ReachesFixGrammar
              THEN [editing EXCEPT !.pc = IF FirstMissingCall = 0 THEN "edited" ELSE "raised",
                                   !.heap = fixed.heap]
              ELSE [editing EXCEPT !.pc = "raised"]
    /\ UNCHANGED <<now, pipeline_status, call, tasks, message_queue, running, loopVars,
                   monitorVars, result, histVars, controls, shutdowns, serial,
                   traceVars, research, utilVars>>

\* _fix_grammar is called on the draft of the received message with a list
\* of issues (as test_fix_grammar calls it on its sample article)
fix_grammar(issues) ==
    /\ editing.pc = "received"
    /\ LET fixed == _fix_grammar(editing.article, editing.heap, issues)
       IN  editing' = [pc |-> "fixed", original |-> editing.original,
                       article |-> editing.article, heap |-> fixed.heap,
                       edited |-> fixed.edited]
    /\ UNCHANGED <<now, pipeline_status, call, tasks, message_queue, running, loopVars,
                   monitorVars, result, histVars, controls, shutdowns, serial,
                   traceVars, research, utilVars>>

(***************************************************************************)
(* ResearchAgent.gather_research and its cache.                            *)
(***************************************************************************)
SecondsPerDay == 86400

\* datetime.now().strftime('%Y%m%d'): the day
Date(t) == t \div (SecondsPerDay * TicksPerSecond)

\* _generate_cache_key: f"{topic.lower().replace(' ', '_')}_{date}"
_generate_cache_key(topic, t) == [slug |-> TopicSlug(topic), date |-> Date(t)]

\* datetime.now(), a datetime object, as gather_research stores it in the
\* cache entry
Datetime(t) == [type |-> "datetime", t |-> t]

\* datetime.fromisoformat(x) raises TypeError unless x is a str
fromisoformat_raises(x) == x.type # "str"

\* default of researcher.cache_ttl_hours
cache_ttl_hours == 24

\* _is_cache_valid once fromisoformat has returned
_is_cache_valid(cache_entry, t) ==
    (t - cache_entry.timestamp.t) < cache_ttl_hours * 3600 * TicksPerSecond

\* research_data as gather_research builds it at time t
ResearchData(topic, t) == [topic |-> topic, timestamp |-> t]

\* gather_research(topic); ok says whether the searches of the search API
\* return or raise.  last is how the call ended: the data it returned or the
\* exception it raised.
gather_research(topic, ok) ==
    /\ research.calls < MaxResearch
    /\ LET cache_key == _generate_cache_key(topic, now)
           cached == cache_key \in DOMAIN research.cache
           called == [research EXCEPT !.calls = @ + 1]
       IN  research' =
              IF cached /\ fromisoformat_raises(research.cache[cache_key].timestamp)
              THEN [called EXCEPT !.last = [pc |-> "raised", error |-> "TypeError"]]
              ELSE IF cached /\ _is_cache_valid(research.cache[cache_key], now)
              THEN [called EXCEPT
                      !.last = [pc |-> "returned", data |-> research.cache[cache_key].data]]
              ELSE IF ok
              THEN [called EXCEPT
                      !.searches = @ + 1,
                      !.cache = DictSet(@, cache_key,
                                        [data |-> ResearchData(topic, now),
                                         timestamp |-> Datetime(now)]),
                      !.last = [pc |-> "returned", data |-> ResearchData(topic, now)]]
              ELSE [called EXCEPT
                      !.searches = @ + 1,
                      !.last = [pc |-> "raised", error |-> ExceptionText]]
    /\ UNCHANGED <<now, pipeline_status, call, tasks, message_queue, running, loopVars,
                   monitorVars, result, histVars, extVars, traceVars, utilVars>>

(***************************************************************************)
(* LLMInterface.generate under tenacity's retry decorator.                 *)
(***************************************************************************)
\* stop=stop_after_attempt(3): the attempt number at which retrying stops
stop_after_attempt == 3

\* the stop condition met only after the attempt number has passed the limit
retry_stops_late(attempt_number) == attempt_number > stop_after_attempt

\* the decorator's stop condition after a failed attempt
retry_stops(attempt_number) == attempt_number >= stop_after_attempt

\* the texts the backend answers with
Completions == {"text1", "text2"}

\* what one run of generate's body gives: the completion's text, or the
\* exception the except branch logs and raises again
BodyOutcomes ==
    {[ok |-> TRUE, text |-> t] : t \in Completions} \cup {[ok |-> FALSE]}

\* a caller invokes generate(prompt): the decorator starts a new retry state
\* for the invocation
generate ==
    /\ llm.pc \in {"idle", "returned", "raised"}
    /\ llm.calls < MaxGenerates
    /\ llm' = [pc |-> "attempt", calls |-> llm.calls + 1, attempts |-> << >>,
               request_history |-> llm.request_history]
    /\ UNCHANGED <<now, pipeline_status, call, tasks, message_queue, running, loopVars,
                   monitorVars, result, histVars, extVars, traceVars, research,
                   reported, publishing>>

\* the decorator runs generate's body once (after the wait, if it is not the
\* first attempt): on success _log_request stores the response and the text
\* is returned; on an exception the attempt number is compared with
\* stop_after_attempt, and retrying either goes on or ends with RetryError
generate_attempt(outcome) ==
    /\ llm.pc = "attempt"
    /\ LET attempts == Append(llm.attempts, outcome)
       IN  llm' =
              IF outcome.ok
              THEN [pc |-> "returned", calls |-> llm.calls, attempts |-> attempts,
                    request_history |-> Append(llm.request_history, outcome.text),
                    value |-> outcome.text]
              ELSE IF retry_stops(Len(attempts))
              THEN [pc |-> "raised", calls |-> llm.calls, attempts |-> attempts,
                    request_history |-> llm.request_history,
                    exception |-> "RetryError"]
              ELSE [llm EXCEPT !.attempts = attempts]
    /\ UNCHANGED <<now, pipeline_status, call, tasks, message_queue, running, loopVars,
                   monitorVars, result, histVars, extVars, traceVars, research,
                   reported, publishing>>

(***************************************************************************)
(* PublisherAgent.publish_content.                                         *)
(***************************************************************************)
\* default of publisher.min_quality_score (0.8), in hundredths
min_quality_score == 80

\* quality_report["overall_score"] as the quality checker reports it, in
\* hundredths
QualityScores == {min_quality_score - 1, min_quality_score, 100}

\* the articles handed to publish_content: with an id, and without one
Articles == {[id |-> "article1"], [id |-> "article2"], [title |-> "untitled"]}

\* default of publisher.platforms
platforms == << "default" >>

\* _is_quality_acceptable with the minimum one hundredth lower
_is_quality_acceptable_lenient(overall_score) == overall_score >= min_quality_score - 1

\* PublisherAgent._is_quality_acceptable
_is_quality_acceptable(overall_score) == overall_score >= min_quality_score

\* the calls of content_publisher.publish the loop over the platforms makes
PublishCalls(article) ==
    [i \in 1..Len(platforms) |-> [content |-> article, platform |-> platforms[i]]]

\* publish_content(article): overall_score is what the quality checker
\* reports for it.  A failed check raises ValueError at once; else the
\* assets are prepared, the article is published to every platform (a
\* platform's failure is caught and stored in the results), and the entry for
\* publish_history is built, which reads article["id"].
publish_content(article, overall_score) ==
    /\ publishing.calls < MaxPublishes
    /\ LET called == [pc |-> "raised", calls |-> publishing.calls + 1,
                      publish_history |-> publishing.publish_history,
                      prepared |-> publishing.prepared,
                      published |-> publishing.published,
                      article |-> article, overall_score |-> overall_score,
                      exception |-> "ValueError"]
           issued == [called EXCEPT
                         !.prepared = Append(@, article),
                         !.published = @ \o PublishCalls(article)]
       IN  publishing' =
              IF ~_is_quality_acceptable(overall_score)
              THEN called
              ELSE IF "id" \notin DOMAIN article
              THEN [issued EXCEPT !.exception = "KeyError"]
              ELSE [issued EXCEPT !.pc = "returned", !.exception = None,
                                  !.publish_history = Append(@, article.id)]
    /\ UNCHANGED <<now, pipeline_status, call, tasks, message_queue, running, loopVars,
                   monitorVars, result, histVars, extVars, traceVars, research,
                   reported, llm>>

(***************************************************************************)
(* ContentPipeline.shutdown.                                               *)
(***************************************************************************)
\* the methods class AgentMemory defines
AgentMemoryMethods ==
    {"store_interaction", "recall", "summarize", "load_memory", "save_memory", "cleanup"}

\* the public methods class PipelineMonitor defines
PipelineMonitorMethods ==
    {"track_pipeline", "log_event", "record_metric", "get_pipeline_metrics",
     "get_events", "get_metrics", "get_alerts", "mark_pipeline_complete", "cleanup"}

\* BaseAgent.shutdown awaits self.memory.save()
agent_shutdown_raises == "save" \notin AgentMemoryMethods

\* ContentPipeline.shutdown awaits self.monitor.shutdown()
monitor_shutdown_raises == "shutdown" \notin PipelineMonitorMethods

\* how a ContentPipeline.shutdown call ends: asyncio.gather hands the first
\* exception of the agents' shutdown() to the caller
shutdown_outcome ==
    IF agent_shutdown_raises \/ monitor_shutdown_raises
    THEN "AttributeError"
    ELSE "returned"

\* ContentPipeline.shutdown: gather runs shutdown() of every agent, each of
\* which clears self.running before it awaits self.memory.save(); the
\* monitor's events, metrics and alerts are cleared by PipelineMonitor.cleanup
\* only, which shutdown does not call.
shutdown ==
    /\ Len(shutdowns) < MaxShutdowns
    /\ running' = [a \in AgentRole |-> FALSE]
    /\ shutdowns' = Append(shutdowns, shutdown_outcome)
    /\ UNCHANGED <<now, pipeline_status, call, tasks, message_queue, loopVars,
                   monitorVars, result, histVars, controls, serial, editing,
                   traceVars, research, utilVars>>

(***************************************************************************)
(* Specifications.                                                         *)
(***************************************************************************)
\* the topics of the runs followed through the agents
RunTopics == { <<"a", "_">>, <<"b">> }

\* Spec: runs on the normal path of start_pipeline, followed through the six
\* agents, all started within one second.
Next ==
    \/ \E c \in Calls, tp \in RunTopics : start_pipeline(c, tp, None, 2000)
    \/ \E c \in Calls : run_tasks(c)
    \/ \E c \in Calls : monitor_pipeline(c)
    \/ \E a \in AgentRole : run_get(a)
    \/ \E a \in AgentRole, ok \in BOOLEAN :
          \E m \in processing[a] : run_process(a, m, ok)

Spec == Init /\ [][Next]_vars

\* The event loop runs every ready task (it serves them first in, first out),
\* and every stage's work returns or raises in the end.
Fairness ==
    /\ \A c \in Calls : WF_vars(run_tasks(c))
    /\ \A c \in Calls : WF_vars(monitor_pipeline(c))
    /\ \A a \in AgentRole : WF_vars(run_get(a))
    /\ \A a \in AgentRole :
          WF_vars(\E ok \in BOOLEAN : \E m \in processing[a] : run_process(a, m, ok))

FairSpec == Spec /\ Fairness

\* SpecCalls: the calls of start_pipeline with every payload, over the clock,
\* with the exception path of start_pipeline.
NextCalls ==
    \/ Tick
    \/ \E c \in Calls, tp \in Topics, sg \in StyleGuides, tl \in TargetLengths :
          start_pipeline(c, tp, sg, tl)
    \/ \E c \in Calls : run_tasks(c)
    \/ \E c \in Calls : monitor_pipeline(c)
    \/ \E c \in Calls : start_pipeline_except(c)

SpecCalls == Init /\ [][NextCalls]_vars

\* SpecStatus: status queries and logged events beside the calls.
NextStatus ==
    \/ \E c \in Calls, tp \in RunTopics : start_pipeline(c, tp, None, 2000)
    \/ \E c \in Calls : run_tasks(c)
    \/ \E c \in Calls : start_pipeline_except(c)
    \/ \E p \in PipelineIds, ty \in EventTypes :
          \E ag \in DefaultEventAgents(ty) : \E d \in Durations(ty, ag) :
             log_event(p, ty, ag, d)
    \/ \E p \in PipelineIds : get_pipeline_status(p)

SpecStatus == Init /\ [][NextStatus]_vars

\* SpecMonitor: events reported to the monitor beside the calls, for agents
\* with a configured threshold and with the default one.
NextMonitor ==
    \/ \E c \in Calls, tp \in RunTopics : start_pipeline(c, tp, None, 2000)
    \/ \E c \in Calls : run_tasks(c)
    \/ Tick
    \/ \E p \in PipelineIds, ty \in EventTypes :
          \E ag \in EventAgents(ty) : \E d \in Durations(ty, ag) :
             log_event_reported(p, ty, ag, d)

SpecMonitor == Init /\ [][NextMonitor]_vars

\* SpecGenerate: invocations of LLMInterface.generate, one after the other.
NextGenerate ==
    \/ generate
    \/ \E outcome \in BodyOutcomes : generate_attempt(outcome)

SpecGenerate == Init /\ [][NextGenerate]_vars

\* SpecPublish: calls of PublisherAgent.publish_content, one after the other.
NextPublish ==
    \E article \in Articles, overall_score \in QualityScores :
        publish_content(article, overall_score)

SpecPublish == Init /\ [][NextPublish]_vars

\* SpecShutdown: ContentPipeline.shutdown beside runs that pass the agents.
NextShutdown ==
    \/ \E c \in Calls, tp \in RunTopics : start_pipeline(c, tp, None, 2000)
    \/ \E c \in Calls : run_tasks(c)
    \/ \E a \in AgentRole : run_get(a)
    \/ \E a \in AgentRole, ok \in BOOLEAN :
          \E m \in processing[a] : run_process(a, m, ok)
    \/ shutdown

SpecShutdown == Init /\ [][NextShutdown]_vars

\* SpecAgents: the agents' loops at work on the messages of runs that are all
\* started with the same payload.
NextAgents ==
    \/ \E c \in Calls : start_pipeline(c, <<"b">>, None, 2000)
    \/ \E c \in Calls : run_tasks(c)
    \/ \E a \in AgentRole : run_get(a)
    \/ \E a \in AgentRole, ok \in BOOLEAN :
          \E m \in processing[a] : run_process(a, m, ok)

SpecAgents == Init /\ [][NextAgents]_vars

\* SpecStop: ContentPipeline.shutdown beside the agents' loops at work on
\* runs started with the same payload.
NextStop ==
    \/ \E c \in Calls : start_pipeline(c, <<"b">>, None, 2000)
    \/ \E c \in Calls : run_tasks(c)
    \/ \E a \in AgentRole : run_get(a)
    \/ \E a \in AgentRole, ok \in BOOLEAN :
          \E m \in processing[a] : run_process(a, m, ok)
    \/ shutdown

\* The event loop runs every ready task, and every stage's work returns or
\* raises in the end.
StopFairness ==
    /\ \A c \in Calls : WF_vars(run_tasks(c))
    /\ \A a \in AgentRole : WF_vars(run_get(a))
    /\ \A a \in AgentRole :
          WF_vars(\E ok \in BOOLEAN : \E m \in processing[a] : run_process(a, m, ok))

FairStop == Init /\ [][NextStop]_vars /\ StopFairness

\* SpecTrace: the agents' loops at work on runs started with the same
\* payload, with the history of deliveries and of the stages' calls kept.
NextTrace ==
    \/ \E c \in Calls : start_pipeline(c, <<"b">>, None, 2000)
    \/ \E c \in Calls : run_tasks(c)
    \/ \E a \in AgentRole : run_get_traced(a)
    \/ \E a \in AgentRole, ok \in BOOLEAN :
          \E m \in processing[a] : run_process_traced(a, m, ok)

SpecTrace == Init /\ [][NextTrace]_vars

\* SpecTasks: task messages with and without the required field, put on the
\* mailboxes of agents whose loops a caller has started, with the same
\* history kept.
NextTasks ==
    \/ \E a \in AgentRole : run_start(a)
    \/ \E a \in AgentRole, sender \in TaskSenders :
          \E content \in TaskPayloads(a) : put_task(a, sender, content)
    \/ \E a \in AgentRole : run_get_traced(a)
    \/ \E a \in AgentRole, ok \in BOOLEAN :
          \E m \in processing[a] : run_process_traced(a, m, ok)

SpecTasks == Init /\ [][NextTasks]_vars

\* SpecResearch: gather_research calls of the researcher while the clock runs.
NextResearch ==
    \/ Tick
    \/ \E topic \in Topics, ok \in BOOLEAN : gather_research(topic, ok)

SpecResearch == Init /\ [][NextResearch]_vars

\* SpecEditor: the editor's operations on the draft of a received message.
NextEditor ==
    \/ \E n \in 1..MaxSections : receive_draft(n)
    \/ \E issues \in IssueLists(SectionCount) : edit_article(issues)
    \/ \E issues \in IssueLists(SectionCount) : fix_grammar(issues)

SpecEditor == Init /\ [][NextEditor]_vars

\* SpecMessage: Messages are built, serialized and deserialized while the
\* clock runs.
NextMessage ==
    \/ Tick
    \/ \E sender \in SerialSenders, receiver \in SerialReceivers,
          content \in SerialContents, ty \in SerialTypes :
          new_message(sender, receiver, content, ty)
    \/ to_dict_call
    \/ from_dict_call

SpecMessage == Init /\ [][NextMessage]_vars

\* the agents that are sent control messages: the one that gets the seed
\* messages and one whose mailbox holds nothing else
ControlTargets == {RESEARCHER, WRITER}

\* SpecControl: control messages beside the calls of start_pipeline, whose
\* seed messages the researcher's gather_research fails on (so that no
\* message travels further down the workflow).
NextControl ==
    \/ \E c \in Calls, tp \in RunTopics : start_pipeline(c, tp, None, 2000)
    \/ \E c \in Calls : run_tasks(c)
    \/ \E a \in AgentRole : run_get(a)
    \/ \E a \in AgentRole : \E m \in processing[a] : run_process(a, m, FALSE)
    \/ \E a \in ControlTargets, cmd \in Commands : put_control(a, cmd)

SpecControl == Init /\ [][NextControl]_vars

\* SpecIds: one run, and control messages built for its agents while it is
\* in progress and the clock runs.
NextIds ==
    \/ Tick
    \/ \E tp \in RunTopics : start_pipeline(1, tp, None, 2000)
    \/ run_tasks(1)
    \/ \E a \in ControlTargets, cmd \in Commands :
          call[1].pc = "monitor" /\ put_control(a, cmd)

SpecIds == Init /\ [][NextIds]_vars

(***************************************************************************)
(* What the claims speak about.                                            *)
(***************************************************************************)
\* the stage that is no stage's successor
StartStage ==
    CHOOSE r \in AgentRole : \A q \in AgentRole : r \notin Range(create_workflow[q])

RECURSIVE ChainFrom(_)
ChainFrom(stage) ==
    IF create_workflow[stage] = << >>
    THEN << stage >>
    ELSE << stage >> \o ChainFrom(create_workflow[stage][1])

\* the workflow's order from the start stage
WorkflowOrder == ChainFrom(StartStage)

\* the stages before stage s in the workflow's order
StagesBefore(s) ==
    SubSeq(WorkflowOrder, 1, (CHOOSE i \in 1..Len(WorkflowOrder) : WorkflowOrder[i] = s) - 1)

Started(c) == call[c].pc # "idle"

\* the record of the run of call c
RecordOf(c) == pipeline_status[call[c].pid]

StatusOf(c) == IF Started(c) THEN RecordOf(c).status ELSE "none"

\* an entry of a run's errors list names stage s
References(entry, s) == entry = s

\* C1: every started run's status eventually reaches 'completed' or 'failed'.
C1_RunReachesTerminal ==
    \A c \in Calls : Started(c) ~> (StatusOf(c) \in Terminal)

\* C2: once every stage has processed the run's message successfully, the
\* run's status eventually is 'completed' with completed_stages the whole
\* workflow in order.
C2_HappyPathCompletes ==
    \A c \in Calls :
        (stagesDone[c] = WorkflowOrder)
        ~> (/\ StatusOf(c) = "completed"
            /\ RecordOf(c).completed_stages = WorkflowOrder)

\* C3: once stage s has failed on the run's message, the run's status
\* eventually is 'failed', with completed_stages the stages before s and
\* errors holding exactly one entry, which references s.
C3_StageFailureFailsRun ==
    \A c \in Calls : \A s \in AgentRole :
        (s \in stageFailed[c])
        ~> (/\ StatusOf(c) = "failed"
            /\ RecordOf(c).completed_stages = StagesBefore(s)
            /\ Len(RecordOf(c).errors) = 1
            /\ References(RecordOf(c).errors[1], s))

\* C4: once send_message has found no agent for the receiver of a message of
\* a run, that run's status eventually is 'failed'.
C4_RoutingErrorFailsRun ==
    \A c \in Calls :
        (\E m \in undelivered : m.run = c) ~> (StatusOf(c) = "failed")

\* C5: the status stored for a run id only moves forward, from 'started' to
\* 'completed' or 'failed'; a terminal status is never changed.
C5_StatusMonotone ==
    [][\A p \in DOMAIN pipeline_status :
          pipeline_status'[p].status # pipeline_status[p].status
          => (/\ pipeline_status[p].status = "started"
              /\ pipeline_status'[p].status \in Terminal)]_vars

\* C6: a run's status is 'completed' only when the publisher has processed
\* that run's message successfully.
C6_CompletedOnlyAfterPublisher ==
    \A c \in Calls :
        StatusOf(c) = "completed" => PUBLISHER \in Range(stagesDone[c])

\* C6 witness: monitor_pipeline is polling a run whose message has passed
\* every stage before the publisher, which has not finished it; the run is
\* not 'completed'.
C6_Witness ==
    \E c \in Calls :
        /\ call[c].pc = "monitor"
        /\ stagesDone[c] = StagesBefore(PUBLISHER)
        /\ \E m \in processing[PUBLISHER] : m.run = c
        /\ StatusOf(c) # "completed"

\* C7: every run's completed_stages is a prefix of the workflow's order.
C7_CompletedStagesPrefix ==
    \A p \in DOMAIN pipeline_status :
        IsPrefix(pipeline_status[p].completed_stages, WorkflowOrder)

\* C7 witness: a run whose message every stage has processed successfully.
C7_Witness ==
    \E c \in Calls :
        /\ stagesDone[c] = WorkflowOrder
        /\ IsPrefix(RecordOf(c).completed_stages, WorkflowOrder)

\* C8: every start_pipeline call that has enqueued the seed message returns
\* the run id, whether or not the run reaches a terminal status.
C8_StartReturns ==
    \A c \in Calls : (call[c].pc = "monitor") ~> (call[c].pc = "returned")

\* C9: two start_pipeline calls with different payloads get different run ids.
C9_DistinctRunIds ==
    \A c, d \in Calls :
        (c # d /\ Started(c) /\ Started(d) /\ call[c].payload # call[d].payload)
        => call[c].pid # call[d].pid

\* C10: get_pipeline_status with a run id that was never started reports
\* 'Pipeline not found' and changes neither pipeline_status, nor the monitor's
\* events, metrics and alerts, nor any mailbox.
C10_NotFoundChangesNothing ==
    [][\A p \in PipelineIds :
          (p \notin DOMAIN pipeline_status /\ get_pipeline_status(p))
          => (/\ result' = NotFound
              /\ UNCHANGED <<pipeline_status, events, metrics, alerts, message_queue>>)]_vars

\* C10 witness: 'Pipeline not found' was reported while a run is recorded and
\* tracked, an event and an alert are stored and a seed message is queued.
C10_Witness ==
    /\ result = NotFound
    /\ DOMAIN pipeline_status # {}
    /\ \E p \in DOMAIN events : events[p] # << >>
    /\ alerts # << >>
    /\ message_queue[RESEARCHER] # << >>

\* C11: for every run id start_pipeline has created, in every reachable
\* state, get_pipeline_status gives its caller a snapshot holding the run's
\* current status and its errors list.
C11_SnapshotReturned ==
    [][\A p \in DOMAIN pipeline_status :
          get_pipeline_status(p)
          => (/\ "status" \in DOMAIN result'
              /\ "errors" \in DOMAIN result'
              /\ result'.status = pipeline_status[p].status
              /\ result'.errors = pipeline_status[p].errors)]_vars

\* the monitor holds no events, metrics or alerts
MonitorReleased == events = EmptyDict /\ metrics = EmptyDict /\ alerts = << >>

\* C12: every ContentPipeline.shutdown call, the first one as well as a
\* repeated one, returns and leaves every agent with running = false and the
\* monitor's resources released.
C12_ShutdownIdempotent ==
    [][shutdown
       => (/\ shutdowns'[Len(shutdowns')] = "returned"
           /\ \A a \in AgentRole : ~running'[a]
           /\ MonitorReleased')]_vars

\* a control message whose command is 'shutdown'
IsShutdown(m) == m.message_type = "control" /\ Command(m) = "shutdown"

\* C13: once a loop of an agent has processed a control message with
\* command 'shutdown' (which leaves running = false), no loop of that agent
\* takes another message from the mailbox, be it queued already or put there
\* later, a second shutdown command included.
C13_NoProcessingAfterShutdown ==
    [][\A a \in AgentRole : ~running[a] => ~run_get(a)]_vars

\* C14: when process_message handles a control message whose command is
\* 'shutdown', the agent's running flag is false afterwards and no message is
\* put on any mailbox, nor handed to send_message at all.
C14_ShutdownCommandStopsSilently ==
    [][\A a \in AgentRole : \A m \in processing[a] :
          (IsShutdown(m) /\ \E ok \in BOOLEAN : run_process(a, m, ok))
          => (/\ ~running'[a]
              /\ message_queue' = message_queue
              /\ undelivered' = undelivered)]_vars

\* C14 witness: an agent has been stopped by a shutdown command while a
\* task message waits in its mailbox and other agents keep running.
C14_Witness ==
    \E a \in AgentRole :
        /\ ~running[a]
        /\ controls > 0
        /\ \E i \in 1..Len(message_queue[a]) : message_queue[a][i].message_type = "task"
        /\ \E b \in AgentRole : running[b]

\* the run() tasks of an agent that start_pipeline has created and that
\* have started
LoopsStarted == Cardinality({c \in Calls : tasks[c] = "started"})

\* C15: a failure while an agent processes a message ends no loop, neither
\* of that agent nor of another: in every state, so also after any number of
\* failures, every agent is running and each of its loops is either waiting
\* for the next message of the mailbox or processing one.
C15_FailureKeepsLoops ==
    \A a \in AgentRole :
        /\ running[a]
        /\ waiting[a] + Cardinality(processing[a]) = LoopsStarted

\* C15 witness: the researcher has failed on the message of the first run,
\* a loop of it is waiting again, and another message (of the second run) is
\* being processed by the researcher.
C15_Witness ==
    /\ RESEARCHER \in stageFailed[1]
    /\ running[RESEARCHER]
    /\ waiting[RESEARCHER] > 0
    /\ \E m \in processing[RESEARCHER] : m.run = 2

\* C16: whenever the processing of a message fails, process_message gives
\* exactly one message: of type 'error', sent by the agent's own role,
\* addressed to the sender of the original message, with the failure's
\* description and the original message's id as content.
C16_ErrorMessageShape ==
    \A a \in AgentRole : \A m \in processing[a] : \A ok \in BOOLEAN :
        Failed(a, m, ok)
        => LET response == process_message(a, m, ok)
           IN  /\ Len(response) = 1
               /\ response[1].message_type = "error"
               /\ response[1].sender = a
               /\ response[1].receiver = m.sender
               /\ response[1].content =
                     [error |-> ExceptionText, original_message_id |-> m.id]

\* C16 witness: the writer has failed on the researcher's message and its
\* error message, which carries that message's id, is in the researcher's
\* mailbox.
C16_Witness ==
    \E c \in Calls : \E i \in 1..Len(message_queue[RESEARCHER]) :
        LET e == message_queue[RESEARCHER][i]
        IN  /\ WRITER \in stageFailed[c]
            /\ e.message_type = "error"
            /\ e.sender = WRITER
            /\ e.run = c
            /\ e.content.original_message_id = _generate_id(0, RESEARCHER, WRITER)

\* the fields of a Message
MessageFields == {"id", "sender", "receiver", "content", "message_type", "timestamp"}

\* C17: the Message that from_dict makes of m.to_dict() equals m in every
\* field: id, sender, receiver, content, message_type and timestamp.
C17_RoundTrip ==
    serial.pc = "loaded"
    => \A f \in MessageFields : serial.copy[f] = serial.message[f]

\* C18: the content of a received message, the values nested in it
\* included, stays what it was when the message was built, whatever the
\* stage that received it does.
C18_MessageNeverMutated ==
    editing.pc # "idle" => Deref(editing.article, editing.heap) = editing.original

\* the messages of run c that wait in a mailbox or are being processed
InFlight(c) ==
    {m \in UNION {Range(message_queue[a]) \cup processing[a] : a \in AgentRole} :
        m.run = c}

\* run c has stalled: it was started, its message has not passed every
\* stage, and no message of it is left that a stage could work on
Stalled(c) ==
    /\ Started(c)
    /\ tasks[c] = "started"
    /\ stagesDone[c] # WorkflowOrder
    /\ InFlight(c) = {}

\* C19: a run whose stages make no more progress is marked 'failed' in the
\* end by the orchestrator; it does not stay non-terminal forever.
C19_WatchdogFailsStalledRun ==
    \A c \in Calls : Stalled(c) ~> (StatusOf(c) = "failed")

\* C20: once the publisher has failed on a run's message, the run's status
\* becomes 'failed', and it is never 'completed'.
C20_PublisherFailureFailsRun ==
    /\ \A c \in Calls : (PUBLISHER \in stageFailed[c]) ~> (StatusOf(c) = "failed")
    /\ [](\A c \in Calls : PUBLISHER \in stageFailed[c] => StatusOf(c) # "completed")

\* the stages after stage s in the workflow's order
StagesAfter(s) == Range(WorkflowOrder) \ (Range(StagesBefore(s)) \cup {s})

\* C21: once a stage has failed on a run's message, no task message of that
\* run is in any mailbox or being processed, and no stage later in the
\* workflow has been invoked for the run: the stages that worked on it are
\* the failed one and those before it.
C21_ShortCircuitOnFailure ==
    \A c \in Calls : \A s \in stageFailed[c] :
        /\ \A m \in InFlight(c) : m.message_type # "task"
        /\ stageFailed[c] = {s}
        /\ stagesDone[c] = StagesBefore(s)
        /\ \A d \in StagesAfter(s) :
              \A m \in Range(message_queue[d]) \cup processing[d] : m.run # c

\* C21 witness: the editor has failed on a run's message after the
\* researcher and the writer succeeded, and the error message it sent back
\* has been consumed.
C21_Witness ==
    \E c \in Calls :
        /\ EDITOR \in stageFailed[c]
        /\ stagesDone[c] = StagesBefore(EDITOR)
        /\ InFlight(c) = {}

\* C23: a stage that has a successor and succeeds on a task message gives
\* exactly one task message, sent by its own role to its successor in the
\* workflow; so the stages that have succeeded on a run's message are a
\* prefix of the workflow's order.
C23_SuccessGoesToSuccessor ==
    /\ \A a \in AgentRole : \A m \in processing[a] :
          (Succeeded(a, m, TRUE) /\ create_workflow[a] # << >>)
          => LET response == process_message(a, m, TRUE)
             IN  /\ Len(response) = 1
                 /\ response[1].message_type = "task"
                 /\ response[1].sender = a
                 /\ response[1].receiver = create_workflow[a][1]
    /\ \A c \in Calls : IsPrefix(stagesDone[c], WorkflowOrder)

\* C23 witness: a run's message has passed the five stages before the
\* publisher in the workflow's order, and the image stage's message for the
\* publisher is in the publisher's mailbox.
C23_Witness ==
    \E c \in Calls : \E i \in 1..Len(message_queue[PUBLISHER]) :
        /\ stagesDone[c] = StagesBefore(PUBLISHER)
        /\ message_queue[PUBLISHER][i].run = c
        /\ message_queue[PUBLISHER][i].sender = IMAGE

\* C25: when a loop hands the response of process_message to send_message,
\* at most one message is sent; with a registered receiver it is added, once
\* and at the end, to that receiver's mailbox and no other mailbox changes,
\* and with no response no mailbox changes.
C25_SendPutsOnce ==
    [][\A a \in AgentRole : \A m \in processing[a] : \A ok \in BOOLEAN :
          run_process(a, m, ok)
          => LET response == process_message(a, m, ok)
                 sent == response # << >> /\ response[1].receiver \in AgentRole
             IN  /\ Len(response) <= 1
                 /\ \A b \in AgentRole :
                       IF sent /\ b = response[1].receiver
                       THEN /\ Len(message_queue'[b]) = Len(message_queue[b]) + 1
                            /\ message_queue'[b][Len(message_queue'[b])] = response[1]
                            /\ SubSeq(message_queue'[b], 1, Len(message_queue[b]))
                                  = message_queue[b]
                       ELSE message_queue'[b] = message_queue[b]]_vars

\* C25 witness: the researcher's output message is the only message in the
\* writer's mailbox while the seed message of another run waits in the
\* researcher's.
C25_Witness ==
    /\ Len(message_queue[WRITER]) = 1
    /\ message_queue[WRITER][1].sender = RESEARCHER
    /\ message_queue[RESEARCHER] # << >>
    /\ \A b \in AgentRole \ {RESEARCHER, WRITER} : message_queue[b] = << >>

\* C27: a loop that takes a message takes the oldest one of the mailbox, and
\* whatever is put on a mailbox is put behind the messages that wait there;
\* so an agent gets its messages in the order in which they were enqueued,
\* whatever runs they belong to.
C27_MailboxFifo ==
    [][\A a \in AgentRole :
          /\ run_get(a)
              => /\ processing'[a] = processing[a] \cup {message_queue[a][1]}
                 /\ message_queue'[a] = Tail(message_queue[a])
          /\ (message_queue'[a] # message_queue[a] /\ ~run_get(a))
              => IsPrefix(message_queue[a], message_queue'[a])]_vars

\* C27 witness: the researcher is processing the seed message of the first
\* run, which was enqueued first, while that of the second run is the next
\* in its mailbox.
C27_Witness ==
    /\ \E m \in processing[RESEARCHER] : m.run = 1
    /\ message_queue[RESEARCHER] # << >>
    /\ message_queue[RESEARCHER][1].run = 2

\* C28: in every state each agent has at most one message being processed.
C28_OneMessageAtATime ==
    \A a \in AgentRole : Cardinality(processing[a]) <= 1

\* C22: once an agent's running flag is false, every run() loop of the agent
\* returns in the end: none stays blocked in message_queue.get() or at work
\* on a message, also when the mailbox is empty.
C22_StoppedLoopReturns ==
    \A a \in AgentRole :
        (~running[a]) ~> (waiting[a] = 0 /\ processing[a] = {})

\* a task message that lacks the field the stage requires
LacksRequiredField(a, m) ==
    m.message_type = "task" /\ RequiredField(a) \notin DOMAIN m.content

\* C24: when a loop has processed a task message that lacks the stage's
\* required field, process_message has given exactly one message of type
\* 'error' that refers to the task message, no task message has been put on
\* any mailbox, and the stage's own work has not been called for it.
C24_ValidationError ==
    [][\A a \in AgentRole : \A m \in processing[a] : \A ok \in BOOLEAN :
          (LacksRequiredField(a, m) /\ run_process_traced(a, m, ok))
          => LET response == process_message(a, m, ok)
             IN  /\ Len(response) = 1
                 /\ response[1].message_type = "error"
                 /\ response[1].content.original_message_id = m.id
                 /\ m \notin invoked'
                 /\ \A b \in AgentRole :
                       \A i \in 1..Len(message_queue'[b]) :
                           i > Len(message_queue[b])
                           => message_queue'[b][i] = response[1]]_vars

\* C24 witness: an agent has answered a task message without its required
\* field: the message was delivered to it, its work was not called, and the
\* error reply is in the sender's mailbox.
C24_Witness ==
    \E a \in AgentRole : \E m \in delivered :
        /\ m.receiver = a
        /\ LacksRequiredField(a, m)
        /\ m \notin processing[a]
        /\ m \notin invoked
        /\ m.sender = RESEARCHER
        /\ \E i \in 1..Len(message_queue[RESEARCHER]) :
              /\ message_queue[RESEARCHER][i].message_type = "error"
              /\ message_queue[RESEARCHER][i].sender = a
              /\ message_queue[RESEARCHER][i].content.original_message_id = m.id

\* C29: a loop never takes from a mailbox a message that was handed to
\* process_message before, and a message that has been handed to
\* process_message is in no mailbox: whether its processing succeeded or
\* failed, it is not delivered again.
C29_AtMostOnce ==
    /\ [][\A a \in AgentRole :
             run_get_traced(a) => message_queue[a][1] \notin delivered]_vars
    /\ [](\A m \in delivered : \A b \in AgentRole : m \notin Range(message_queue[b]))

\* C29 witness: the writer has failed on the researcher's message, which
\* was delivered once and is neither queued nor in processing any more,
\* while the writer's loop waits for the next message.
C29_Witness ==
    \E c \in Calls : \E m \in delivered :
        /\ WRITER \in stageFailed[c]
        /\ m.run = c
        /\ m.receiver = WRITER
        /\ m.message_type = "task"
        /\ m \notin processing[WRITER]
        /\ waiting[WRITER] > 0

\* the cache holds an entry for the topic that is younger than the TTL
CachedWithinTtl(topic) ==
    \E k \in DOMAIN research.cache :
        /\ k.slug = TopicSlug(topic)
        /\ _is_cache_valid(research.cache[k], now)

\* C26: a gather_research call for a topic whose cached entry is younger
\* than the TTL returns the cached data and makes no search.
C26_CacheWithinTtl ==
    [][\A topic \in Topics : \A ok \in BOOLEAN :
          (CachedWithinTtl(topic) /\ gather_research(topic, ok))
          => (/\ research'.last.pc = "returned"
              /\ \E k \in DOMAIN research.cache :
                    /\ k.slug = TopicSlug(topic)
                    /\ research'.last.data = research.cache[k].data
              /\ research'.searches = research.searches)]_vars

\* C30: every agent's agent_registry refers to the pipeline's agents dict
\* itself and resolves all six roles; so no message addressed to a role of
\* the workflow was ever found without a target, and every queued message is
\* in the mailbox of the agent its receiver names.
C30_SharedRegistry ==
    /\ \A a \in AgentRole :
          /\ RegistryRef(a) = AgentsDict
          /\ DictKeys(RegistryRef(a)) = AgentRole
          /\ Range(create_workflow[a]) \subseteq DictKeys(RegistryRef(a))
    /\ \A m \in undelivered : m.receiver \notin AgentRole
    /\ \A a \in AgentRole : \A m \in Range(message_queue[a]) : m.receiver = a

\* C30 witness: the image agent's message has been resolved to the
\* publisher's mailbox through the registry, and the writer's error message
\* of another run to the researcher's.
C30_Witness ==
    /\ \E m \in Range(message_queue[PUBLISHER]) :
          m.sender = IMAGE /\ m.receiver \in DictKeys(RegistryRef(IMAGE))
    /\ \E m \in Range(message_queue[RESEARCHER]) :
          m.sender = WRITER /\ m.receiver \in DictKeys(RegistryRef(WRITER))

(***************************************************************************)
(* The shape of the workflow.                                              *)
(***************************************************************************)
\* the stages that are no stage's successor
StartStages ==
    {r \in DOMAIN create_workflow :
        \A q \in DOMAIN create_workflow : r \notin Range(create_workflow[q])}

\* the stages that feed stage s
Producers(s) == {q \in DOMAIN create_workflow : s \in Range(create_workflow[q])}

\* the stages at which a chain from the start stage ends
TerminalStages == {WorkflowOrder[Len(WorkflowOrder)]}

\* the workflow has exactly one start stage, every terminal stage maps to an
\* empty successor list, no stage has more than one producer, and every
\* successor named in it is a registered role
WorkflowShape ==
    /\ Cardinality(StartStages) = 1
    /\ \A s \in TerminalStages : create_workflow[s] = << >>
    /\ \A s \in DOMAIN create_workflow : Cardinality(Producers(s)) <= 1
    /\ \A q \in DOMAIN create_workflow : Range(create_workflow[q]) \subseteq agent_registry

\* C31: the workflow every call of the pipeline runs on has exactly one start
\* stage, an empty successor list at every terminal stage, at most one
\* producer per stage, and only registered roles as successors.
C31_WorkflowShape == \A c \in DOMAIN call : WorkflowShape

\* a run that went from the start stage to a terminal stage
C31_Witness ==
    \E c \in Calls :
        /\ stagesDone[c] # << >>
        /\ stagesDone[c][1] \in StartStages
        /\ stagesDone[c][Len(stagesDone[c])] \in TerminalStages

(***************************************************************************)
(* The errors list of a run and the monitor's event log.                   *)
(***************************************************************************)
\* C32: a run's errors list is append-only: in every step the errors list a
\* run had is a prefix of the one it has afterwards.
C32_ErrorsAppendOnly ==
    [][\A pipeline_id \in DOMAIN pipeline_status :
          /\ pipeline_id \in DOMAIN pipeline_status'
          /\ IsPrefix(pipeline_status[pipeline_id].errors,
                      pipeline_status'[pipeline_id].errors)]_vars

\* C33: the event log of a tracked run is append-only: in every step the
\* events a run had are a prefix of the ones it has afterwards, and a step
\* adds at most one event.
C33_EventsAppendOnly ==
    [][\A pipeline_id \in DOMAIN events :
          /\ pipeline_id \in DOMAIN events'
          /\ IsPrefix(events[pipeline_id], events'[pipeline_id])
          /\ Len(events'[pipeline_id]) <= Len(events[pipeline_id]) + 1]_vars

(***************************************************************************)
(* Error messages.                                                         *)
(***************************************************************************)
\* the messages some mailbox or some loop holds
Held ==
    UNION {Range(message_queue[a]) \cup processing[a] : a \in AgentRole}

\* C34: an error message that answers a message without sender (a seed
\* message) is not lost: send_message never drops one, every one it was
\* given is held by a mailbox or a loop that takes it from there.
C34_SeedErrorKept ==
    \A m \in undelivered :
        (m.message_type = "error" /\ m.receiver = None) => m \in Held

(***************************************************************************)
(* The monitor's alerts.                                                   *)
(***************************************************************************)
\* the SLOW_AGENT alerts of run pipeline_id that a step appends
SlowAlertsAdded(pipeline_id) ==
    {i \in (Len(alerts) + 1)..Len(alerts') :
        alerts'[i] = [pipeline_id |-> pipeline_id, type |-> "SLOW_AGENT"]}

\* C35: a log_event that appends an agent_complete event to a run's log
\* appends one SLOW_AGENT alert for the run if the event's duration exceeds
\* the threshold configured for its agent (default 300 seconds), and none if
\* the duration is at or below it; the alerts before it stay.
C35_DurationThresholdRule ==
    [][\A pipeline_id \in DOMAIN events :
          (/\ pipeline_id \in DOMAIN events'
           /\ Len(events'[pipeline_id]) = Len(events[pipeline_id]) + 1
           /\ events'[pipeline_id][Len(events'[pipeline_id])].type = "agent_complete")
          => LET event == events'[pipeline_id][Len(events'[pipeline_id])]
             IN  /\ IsPrefix(alerts, alerts')
                 /\ Cardinality(SlowAlertsAdded(pipeline_id)) =
                       (IF event.duration > threshold(event.agent) THEN 1 ELSE 0)]_vars

\* C35 witness: an event of the editor, whose threshold is configured, above
\* its threshold has raised a SLOW_AGENT alert, reported to the caller as a
\* failure of the alert's handling.
C35_Witness ==
    \E pipeline_id \in DOMAIN events :
        /\ \E i \in 1..Len(events[pipeline_id]) :
              /\ events[pipeline_id][i].type = "agent_complete"
              /\ events[pipeline_id][i].agent \in DOMAIN ConfiguredThresholds
              /\ events[pipeline_id][i].duration > threshold(events[pipeline_id][i].agent)
        /\ \E j \in 1..Len(alerts) :
              alerts[j] = [pipeline_id |-> pipeline_id, type |-> "SLOW_AGENT"]
        /\ reported.pc = "raised"

\* C36: evaluating and handling the alerts of an event never fails the
\* caller that reports the event: no log_event call ends for its caller with
\* an exception raised by the handling of an alert.
C36_AlertsNeverFailCaller ==
    reported.pc = "raised" => reported.from # "_handle_alert"

(***************************************************************************)
(* Bounded retry of the LLM call.                                          *)
(***************************************************************************)
\* the attempts of the invocation before its last one
EarlierAttempts == SubSeq(llm.attempts, 1, Len(llm.attempts) - 1)

\* C37: an invocation of generate makes at most 3 attempts; it returns the
\* result of its first successful attempt, which is its last attempt; while
\* it is retrying, fewer than 3 attempts were made and all failed; and it
\* ends with an error exactly after the third failure in a row.
C37_BoundedRetry ==
    /\ Len(llm.attempts) <= 3
    /\ llm.pc = "returned"
          => /\ llm.attempts[Len(llm.attempts)] = [ok |-> TRUE, text |-> llm.value]
             /\ \A i \in 1..Len(EarlierAttempts) : ~EarlierAttempts[i].ok
    /\ llm.pc = "attempt"
          => /\ Len(llm.attempts) < 3
             /\ \A i \in 1..Len(llm.attempts) : ~llm.attempts[i].ok
    /\ llm.pc = "raised"
          => /\ Len(llm.attempts) = 3
             /\ \A i \in 1..3 : ~llm.attempts[i].ok

\* C37 witness: the second invocation has ended with an error after three
\* failed attempts, the first one having returned the result of its third
\* attempt.
C37_Witness ==
    /\ llm.calls = 2
    /\ llm.pc = "raised"
    /\ Len(llm.attempts) = 3
    /\ Len(llm.request_history) = 1

(***************************************************************************)
(* Message ids.                                                            *)
(***************************************************************************)
\* C38: message ids are unique within a run: any two distinct messages that
\* were built while the run was in progress and are in the mailboxes have
\* different ids, also when their sender and their receiver are the same.
C38_UniqueIds ==
    Started(1) => \A m1 \in Held : \A m2 \in Held : m1 # m2 => m1.id # m2.id

(***************************************************************************)
(* Messages that get no answer.                                            *)
(***************************************************************************)
\* the types process_message has a handler for
HandledTypes == {"task", "query", "control"}

\* C39: when an agent has processed a message of type 'error' (or of any
\* type other than task, query and control), no message is sent: every
\* mailbox is as it was and nothing was given to send_message.
C39_ErrorGetsNoResponse ==
    [][\A a \in AgentRole : \A m \in processing[a] :
          (m.message_type \notin HandledTypes /\ processing'[a] = processing[a] \ {m})
          => /\ message_queue' = message_queue
             /\ undelivered' = undelivered]_vars

\* C39 witness: the writer failed on a run's message, its error message went
\* to the researcher and has been processed there: no message is left in any
\* mailbox or with any loop, and none was dropped.
C39_Witness ==
    /\ \E c \in Calls : WRITER \in stageFailed[c]
    /\ Held = {}
    /\ undelivered = {}

(***************************************************************************)
(* The quality gate of the publisher.                                      *)
(***************************************************************************)
\* C40: a publish_content call hands the article to the content publisher
\* only if the quality check passed (overall_score >= 0.8, the default of
\* publisher.min_quality_score); on a failed check it raises ValueError, no
\* assets are prepared, the content publisher is not called and
\* publish_history stays as it was.
C40_QualityGate ==
    [][publishing'.calls = publishing.calls + 1
       => IF publishing'.overall_score >= 80
          THEN /\ Len(publishing'.published) = Len(publishing.published) + 1
               /\ publishing'.published[Len(publishing'.published)].content =
                     publishing'.article
          ELSE /\ publishing'.pc = "raised"
               /\ publishing'.exception = "ValueError"
               /\ publishing'.prepared = publishing.prepared
               /\ publishing'.published = publishing.published
               /\ publishing'.publish_history = publishing.publish_history]_vars

\* C40 witness: after an article was published and stored in the history,
\* a call with a score below the minimum has raised, and the history and the
\* publisher's calls are those of the first call.
C40_Witness ==
    /\ publishing.calls = 2
    /\ publishing.pc = "raised"
    /\ publishing.overall_score < 80
    /\ Len(publishing.published) = 1
    /\ publishing.published[1].content # publishing.article
    /\ Len(publishing.publish_history) = 1
====
